---- MODULE Spec2Model ----
(***************************************************************************)
(* A model of the load-test runner of mcp-performance-test:                *)
(*   TestRunner (src/src/TestRunner.ts) and PerformanceAnalyzer            *)
(*   (src/src/logger.ts, lines 93-259), and ConfigurableLogger             *)
(*   (src/src/logger.ts, lines 1-91).                                      *)
(*                                                                         *)
(* JavaScript runs one handler at a time.  Every action below is one       *)
(* handler run to its next suspension point (an await on a remote call or  *)
(* on a timer), together with the promise continuations that run in the   *)
(* same turn.  Date.now() is the variable now; it advances only between    *)
(* handlers (action Tick).                                                 *)
(***************************************************************************)
EXTENDS Integers, Sequences, FiniteSets, TLC

\* ------------------------------------------------------------- bounds
MaxCalls == 2       \* run calls the caller makes on one runner
MaxClients == 2     \* largest concurrency and largest setClientsAmount amount
MaxTime == 1000     \* the clock is not advanced past this unless a timer waits
TickMs == 1000      \* milliseconds the clock advances in one Tick
MaxSetCalls == 1    \* setClientsAmount calls the caller makes
MaxResults == 4     \* outcomes recorded in a PerformanceAnalyzer that is used directly
MaxComputes == 2    \* calculateMetrics calls between two changes of its accumulator
MaxExports == 2     \* exportResults calls the caller makes
MaxSample == 20     \* outcomes in an accumulator drawn in three blocks
MaxLogCalls == 3    \* calls the caller makes on a ConfigurableLogger

\* -------------------------------------------------- program constants
MsPerSecond == 1000 \* TestRunner.ts:213 (and :170)
IdleMs == 10        \* TestRunner.ts:257

\* An optional number (duration?: number): <<>> is undefined, <<v>> is v.
Undefined == <<>>
Num(v) == <<v>>
\* JavaScript truthiness of an optional number: undefined and 0 are falsy.
Truthy(x) == x # Undefined /\ x[1] # 0

Slots == {"main", "other"}   \* call sites that can hold a run in flight
Concurrencies == 1..MaxClients
Durations == {Undefined, Num(0), Num(0 - 1), Num(1)}
RampUps == {Undefined, Num(0), Num(1)}
ErrorMessages == {"ECONNREFUSED", "HTTP 500"}
ConcurrentConfigs ==
  [concurrency : Concurrencies, duration : {Undefined}, rampUpTime : RampUps]
LoadConfigs ==
  [concurrency : Concurrencies, duration : Durations, rampUpTime : {Undefined}]
\* Durations long enough for a loop to run its workflow more than once.
SustainedConfigs ==
  [concurrency : Concurrencies, duration : {Num(1), Num(2)}, rampUpTime : {Undefined}]
\* The one error the server of the sustained runs answers with.
SustainedErrors == {"ECONNREFUSED"}

VARIABLES
  clients,      \* TestRunner.clients: the pool, a sequence of handle identities
  nextClient,   \* identity the next `new VirtualClient` gets
  results,      \* PerformanceAnalyzer.results: the accumulator
  now,          \* Date.now(), in ms
  calls,        \* number of run calls made so far
  setCalls,     \* number of setClientsAmount calls the caller made so far
  runs,         \* per call site: the activation of runConcurrentTest/runLoadTest
  computed,     \* what the caller's calculateMetrics calls returned since the last
                \* change of the accumulator
  exported,     \* what the caller's exportResults calls returned
  direct,       \* the activation of runInitializationTest/runSequentialTest
  logger        \* a ConfigurableLogger the caller constructed and uses directly:
                \* its fields, the calls made on it and what it emitted

vars ==
  <<clients, nextClient, results, now, calls, setCalls, runs, computed, exported,
    direct, logger>>

\* ------------------------------------------------------------ helpers
StepNames == <<"initialize", "acknowledgeInitialize", "listTools">>
StepPcs == {"initialize", "acknowledgeInitialize", "listTools"}
StepIndex(pc) == CHOOSE k \in 1..3 : StepNames[k] = pc
SettledPcs == {"fulfilled", "rejected", "exited"}

\* A promise of executeClientWorkflow (burst) or runClientForDuration (load).
\* client, pc, stepStart, results and timerAt are the activation's state;
\* startedAt (when the workflow started), attempted (the remote calls it issued),
\* raised (the message of the error a call rejected with), iter (workflows started
\* by this promise) and late (workflows it completed at or after the deadline) are
\* history kept for the properties.
NewTask(client) ==
  [client |-> client, pc |-> "new", stepStart |-> 0, results |-> <<>>,
   timerAt |-> 0, startedAt |-> 0, attempted |-> <<>>, raised |-> "", iter |-> 0,
   late |-> 0]

NoConfig == [concurrency |-> 0, duration |-> Undefined, rampUpTime |-> Undefined]
IdleRun ==
  [kind |-> "none", pc |-> "idle", call |-> 0, config |-> NoConfig,
   testStartTime |-> 0, endTime |-> 0, i |-> 0, rampClient |-> 0, timerAt |-> 0,
   tasks |-> <<>>, report |-> <<>>, produced |-> <<>>, counted |-> <<>>,
   phases |-> <<>>]

\* The run has executed the statements of the phase `name` (history kept for the
\* properties).
Phase(rr, name) == [rr EXCEPT !.phases = Append(@, name)]

\* An activation of runInitializationTest or runSequentialTest.  pool is the array
\* it reads its handles from, i the place in it of the handle being driven, pc the
\* remote call it awaits; error is the message of the error it rejected with; log
\* (the remote calls it issued and how they settled, in order) is history kept for
\* the properties.
IdleDirect ==
  [kind |-> "none", pc |-> "idle", call |-> 0, pool |-> <<>>, i |-> 0,
   error |-> "", log |-> <<>>]

\* ------------------------------------------------ PerformanceAnalyzer
addResult(res, r) == Append(res, r)

\* Faulty variant: push(results) of the first element only, instead of push(...results).
addResults_firstOnly(res, rs) == IF rs = <<>> THEN res ELSE Append(res, rs[1])

\* Faulty variant: the outcomes are pushed from the last to the first.
addResults_reversed(res, rs) == res \o [k \in DOMAIN rs |-> rs[Len(rs) + 1 - k]]

addResults(res, rs) == res \o rs

\* Faulty variant: reset leaves the accumulator as it is.
reset_keeps == results

reset == <<>>

\* ------------------------------------------------------------ numbers
\* F(v), the value v being computed once however often F uses it.
With(v, F(_)) == CHOOSE r \in {F(w) : w \in {v}} : TRUE

\* The numbers the metrics hold are kept exact: [num, den, rn, rd] is
\* (num / den) * sqrt(rn / rd), all four non-negative.  den = 0 is what JavaScript's
\* division by zero gives: Infinity for num = 1, NaN for num = 0.
RECURSIVE GCD(_, _)
GCD(a, b) == IF b = 0 THEN a ELSE With(a % b, LAMBDA r : GCD(b, r))

\* num / den
Rat(num, den) ==
  IF den = 0
  THEN [num |-> IF num = 0 THEN 0 ELSE 1, den |-> 0, rn |-> 1, rd |-> 1]
  ELSE With(<<num, den>>, LAMBDA p :
         With(GCD(p[1], p[2]), LAMBDA g :
           [num |-> p[1] \div g, den |-> p[2] \div g, rn |-> 1, rd |-> 1]))

Zero == Rat(0, 1)
Hundred == Rat(100, 1)

\* x * k for a number x and an integer k >= 0
Times(x, k) ==
  With(x, LAMBDA v :
    IF v.den = 0 THEN v
    ELSE IF v.num * k = 0 THEN Zero
    ELSE [Rat(v.num * k, v.den) EXCEPT !.rn = v.rn, !.rd = v.rd])

IsSquare(n) == \E r \in 0..n : r * r = n
Root(n) == CHOOSE r \in 0..n : r * r = n

\* Math.sqrt of a rational q
Sqrt(q) ==
  With(q, LAMBDA v :
    IF v.num = 0 THEN Zero
    ELSE IF IsSquare(v.num) /\ IsSquare(v.den) THEN Rat(Root(v.num), Root(v.den))
    ELSE [num |-> 1, den |-> 1, rn |-> v.num, rd |-> v.den])

\* a <= b for two rationals (rn = rd = 1)
Leq(a, b) == a.num * b.den <= b.num * a.den

RECURSIVE SumFrom(_, _)
SumFrom(x, k) == IF k > Len(x) THEN 0 ELSE x[k] + SumFrom(x, k + 1)
Sum(x) == With(x, LAMBDA v : SumFrom(v, 1))

RECURSIVE GCDFrom(_, _)
GCDFrom(x, k) ==
  IF k > Len(x) THEN 0 ELSE With(GCDFrom(x, k + 1), LAMBDA g : GCD(x[k], g))

\* ------------------------------------------------- ConfigurableLogger
LogLevels == {"none", "error", "warn", "info", "debug"}

LOG_LEVELS == [none |-> 0, error |-> 1, warn |-> 2, info |-> 3, debug |-> 4]

\* new ConfigurableLogger(logLevel, enableColors, customLogger): customLogger is
\* whether one was given.  calls (the calls made on the logger), console (what it
\* wrote with console.error/warn/log) and custom (the calls it made on the custom
\* logger) are history kept for the properties.
NewLogger(logLevel, enableColors, customLogger) ==
  [logLevel |-> logLevel, enableColors |-> enableColors,
   customLogger |-> customLogger, calls |-> <<>>, console |-> <<>>, custom |-> <<>>]

\* Faulty variant: the comparison reversed.
shouldLog_reversed(lg, level) == LOG_LEVELS[level] >= LOG_LEVELS[lg.logLevel]

shouldLog(lg, level) == LOG_LEVELS[level] <= LOG_LEVELS[lg.logLevel]

\* The text written: the upper-case level in brackets and the message, in the
\* level's chalk colour when colours are enabled.
formatMessage(lg, level, message) ==
  [tag |-> CASE level = "error" -> "[ERROR]" [] level = "warn" -> "[WARN]"
             [] level = "info" -> "[INFO]" [] level = "debug" -> "[DEBUG]",
   message |-> message,
   colour |-> IF ~lg.enableColors THEN "none"
              ELSE CASE level = "error" -> "red" [] level = "warn" -> "yellow"
                     [] level = "info" -> "blue" [] level = "debug" -> "gray"]

\* The body the four methods share: the custom logger's method of the same name
\* when there is a custom logger, else the console method when the level passes.
Emit(lg, level, consoleMethod, message) ==
  With([lg EXCEPT !.calls = Append(@, [level |-> level, message |-> message])],
       LAMBDA l :
    IF l.customLogger
    THEN [l EXCEPT !.custom = Append(@, [method |-> level, message |-> message])]
    ELSE IF shouldLog(l, level)
    THEN [l EXCEPT !.console =
            Append(@, [method |-> consoleMethod,
                       text |-> formatMessage(l, level, message)])]
    ELSE l)

\* ConfigurableLogger.error, warn, info and debug
LoggerError(lg, message) == Emit(lg, "error", "error", message)
LoggerWarn(lg, message) == Emit(lg, "warn", "warn", message)
LoggerInfo(lg, message) == Emit(lg, "info", "log", message)
LoggerDebug(lg, message) == Emit(lg, "debug", "log", message)

\* ------------------------------------------------- simple-statistics
\* The place of x[j] in ascending order, equal values keeping their order.
Rank(x, j) ==
  Cardinality({i \in DOMAIN x : x[i] < x[j] \/ (x[i] = x[j] /\ i <= j)})

\* [...x].sort((a, b) => a - b)
SortAsc(x) ==
  With(x, LAMBDA v :
    With([j \in DOMAIN v |-> Rank(v, j)], LAMBDA rank :
      [r \in DOMAIN v |-> v[CHOOSE j \in DOMAIN v : rank[j] = r]]))

\* Faulty variant: the index is taken from the top of the sample (1 - p for p).
quantileSorted_complement(x, P) ==
  LET n == Len(x)
      idx == (n * (100 - P)) \div 100
  IN IF (n * (100 - P)) % 100 # 0 THEN Rat(x[idx + 1], 1)
     ELSE IF n % 2 = 0 THEN Rat(x[idx] + x[idx + 1], 2)
     ELSE Rat(x[idx + 1], 1)

\* ss.quantileSorted(x, P / 100) for 0 < P < 100: idx = x.length * p; a fractional
\* idx takes x[ceil(idx) - 1]; an integral idx takes the mean of x[idx - 1] and
\* x[idx] when the length is even and x[idx] when it is odd (indices from 0).
quantileSorted(x, P) ==
  LET n == Len(x)
      idx == (n * P) \div 100
  IN IF (n * P) % 100 # 0 THEN Rat(x[idx + 1], 1)
     ELSE IF n % 2 = 0 THEN Rat(x[idx] + x[idx + 1], 2)
     ELSE Rat(x[idx + 1], 1)

\* ss.quantile(x, p) selects on a copy of x, whatever the order of x.
ssQuantile(x, P) == With(SortAsc(x), LAMBDA copy : quantileSorted(copy, P))

ssMin(x) == Rat(CHOOSE v \in {x[j] : j \in DOMAIN x} :
                  \A j \in DOMAIN x : v <= x[j], 1)
ssMax(x) == Rat(CHOOSE v \in {x[j] : j \in DOMAIN x} :
                  \A j \in DOMAIN x : v >= x[j], 1)
ssMean(x) == Rat(Sum(x), Len(x))

\* Faulty variant: ss.medianSorted, which takes its argument to be sorted.
ssMedian_assumesSorted(x) == quantileSorted(x, 50)

ssMedian(x) == ssQuantile(x, 50)

\* ss.standardDeviation(x) = sqrt(sum((x[i] - mean)^2) / n).  The sample is first
\* divided by the greatest common divisor g of its values, which leaves the value
\* the same: g * sqrt((n * sum(y^2) - sum(y)^2) / n^2) for y = x / g.
ssStandardDeviation(x) ==
  With(GCDFrom(x, 1), LAMBDA g0 :
    LET n == Len(x)
        g == IF g0 = 0 THEN 1 ELSE g0
    IN With([j \in DOMAIN x |-> x[j] \div g], LAMBDA y :
         With(<<Sum([j \in DOMAIN y |-> y[j] * y[j]]), Sum(y)>>, LAMBDA t :
           Times(Sqrt(Rat(n * t[1] - t[2] * t[2], n * n)), g))))

\* ------------------------------------------------- calculateMetrics
successfulResults(res) == SelectSeq(res, LAMBDA r : r.success)

\* Faulty variant: a failure is recognised by its zero latency.
failedResults_zeroLatency(res) == SelectSeq(res, LAMBDA r : r.latency = 0)

failedResults(res) == SelectSeq(res, LAMBDA r : ~r.success)

\* Faulty variant: the error rate is 0 like every other figure of the early return.
EmptySampleMetrics_zeroRate(res, testDuration) ==
  [totalOperations |-> Len(res),
   successfulOperations |-> 0,
   failedOperations |-> Len(failedResults(res)),
   totalDuration |-> testDuration,
   throughput |-> Zero,
   latencies |-> <<>>,
   percentiles |-> [p50 |-> Zero, p90 |-> Zero, p95 |-> Zero, p99 |-> Zero],
   statistics |-> [min |-> Zero, max |-> Zero, mean |-> Zero, median |-> Zero,
                   standardDeviation |-> Zero],
   errorRate |-> Zero,
   timestamps |-> [k \in DOMAIN res |-> res[k].timestamp]]

\* The metrics returned when there is no successful latency sample.
EmptySampleMetrics(res, testDuration) ==
  [totalOperations |-> Len(res),
   successfulOperations |-> 0,
   failedOperations |-> Len(failedResults(res)),
   totalDuration |-> testDuration,
   throughput |-> Zero,
   latencies |-> <<>>,
   percentiles |-> [p50 |-> Zero, p90 |-> Zero, p95 |-> Zero, p99 |-> Zero],
   statistics |-> [min |-> Zero, max |-> Zero, mean |-> Zero, median |-> Zero,
                   standardDeviation |-> Zero],
   errorRate |-> Hundred,
   timestamps |-> [k \in DOMAIN res |-> res[k].timestamp]]

\* The metrics returned for the latency sample `latencies` of the successes of res.
SampleMetrics(res, latencies, testDuration) ==
  With(SortAsc(latencies), LAMBDA sortedLatencies :
    [totalOperations |-> Len(res),
     successfulOperations |-> Len(successfulResults(res)),
     failedOperations |-> Len(failedResults(res)),
     totalDuration |-> testDuration,
     throughput |-> Times(Rat(Len(successfulResults(res)), testDuration), MsPerSecond),
     latencies |-> latencies,
     percentiles |-> [p50 |-> ssQuantile(sortedLatencies, 50),
                      p90 |-> ssQuantile(sortedLatencies, 90),
                      p95 |-> ssQuantile(sortedLatencies, 95),
                      p99 |-> ssQuantile(sortedLatencies, 99)],
     statistics |-> [min |-> ssMin(latencies),
                     max |-> ssMax(latencies),
                     mean |-> ssMean(latencies),
                     median |-> ssMedian(latencies),
                     standardDeviation |-> ssStandardDeviation(latencies)],
     errorRate |-> Rat(Len(failedResults(res)) * 100, Len(res)),
     timestamps |-> [k \in DOMAIN res |-> res[k].timestamp]])

\* Faulty variant: the latencies are sorted in place (latencies.sort(...) without
\* the copy), so the array that is returned is the sorted one.
Latencies_sortedInPlace(res) ==
  With(successfulResults(res), LAMBDA successful :
    SortAsc([k \in DOMAIN successful |-> successful[k].latency]))

\* Faulty variant: the latencies are mapped from all results, failures included.
Latencies_allResults(res) == [k \in DOMAIN res |-> res[k].latency]

\* successfulResults.map((r) => r.latency)
Latencies(res) ==
  With(successfulResults(res), LAMBDA successful :
    [k \in DOMAIN successful |-> successful[k].latency])

calculateMetrics(res, testDuration) ==
  With(res, LAMBDA all :
    With(Latencies(all), LAMBDA latencies :
      IF Len(latencies) = 0 THEN EmptySampleMetrics(all, testDuration)
      ELSE SampleMetrics(all, latencies, testDuration)))

\* Faulty variant: the accumulator is narrowed to the successes it filtered.
calculateMetricsCall_keepsSuccesses(res, testDuration) ==
  [metrics |-> calculateMetrics(res, testDuration), results |-> successfulResults(res)]

\* A call of calculateMetrics on the accumulator res: the value it returns and the
\* accumulator it leaves (filter, map and the sort of a copy do not touch it).
calculateMetricsCall(res, testDuration) ==
  [metrics |-> calculateMetrics(res, testDuration), results |-> res]

\* ---------------------------------------------- executeClientWorkflow
\* The synchronous start of a workflow: results = [], initStart = Date.now(),
\* client.initialize() issued.
StartWorkflow(t, clock) ==
  [t EXCEPT !.pc = "initialize", !.stepStart = clock, !.results = <<>>,
            !.startedAt = clock, !.attempted = <<"initialize">>, !.raised = "",
            !.iter = @ + 1]

\* Faulty variant: the latency is taken from the start of the workflow, not of the step.
StepSucceeded_fromWorkflowStart(t, clock, call, k) ==
  LET ok == [success |-> TRUE, latency |-> clock - t.startedAt,
             timestamp |-> t.stepStart, error |-> "",
             call |-> call, task |-> k, iter |-> t.iter, step |-> StepIndex(t.pc),
             endedAt |-> clock]
      res == Append(t.results, ok)
  IN IF t.pc = "listTools"
     THEN [t EXCEPT !.results = res, !.pc = "fulfilled"]
     ELSE [t EXCEPT !.results = res, !.pc = StepNames[StepIndex(t.pc) + 1],
                    !.stepStart = clock,
                    !.attempted = Append(@, StepNames[StepIndex(t.pc) + 1])]

\* The awaited remote call of step t.pc resolved at time clock.
StepSucceeded(t, clock, call, k) ==
  LET ok == [success |-> TRUE, latency |-> clock - t.stepStart,
             timestamp |-> t.stepStart, error |-> "",
             call |-> call, task |-> k, iter |-> t.iter, step |-> StepIndex(t.pc),
             endedAt |-> clock]
      res == Append(t.results, ok)
  IN IF t.pc = "listTools"
     THEN [t EXCEPT !.results = res, !.pc = "fulfilled"]
     ELSE [t EXCEPT !.results = res, !.pc = StepNames[StepIndex(t.pc) + 1],
                    !.stepStart = clock,
                    !.attempted = Append(@, StepNames[StepIndex(t.pc) + 1])]

\* Faulty variant: the catch block rethrows instead of recording the failure.
StepFailed_rethrow(t, clock, msg, call, k) ==
  [t EXCEPT !.pc = "rejected", !.raised = msg]

\* Faulty variant: the catch block swallows the error without recording it.
StepFailed_swallows(t, clock, msg, call, k) ==
  [t EXCEPT !.pc = "fulfilled", !.raised = msg]

\* Faulty variant: each step has its own try/catch, and the workflow goes on with
\* the next step after recording the failure.
StepFailed_continues(t, clock, msg, call, k) ==
  LET bad == [success |-> FALSE, latency |-> 0, timestamp |-> clock, error |-> msg,
              call |-> call, task |-> k, iter |-> t.iter, step |-> StepIndex(t.pc),
              endedAt |-> clock]
  IN IF t.pc = "listTools"
     THEN [t EXCEPT !.results = Append(@, bad), !.pc = "fulfilled", !.raised = msg]
     ELSE [t EXCEPT !.results = Append(@, bad), !.raised = msg,
                    !.pc = StepNames[StepIndex(t.pc) + 1], !.stepStart = clock,
                    !.attempted = Append(@, StepNames[StepIndex(t.pc) + 1])]

\* The awaited remote call of step t.pc rejected with an Error whose message is msg.
StepFailed(t, clock, msg, call, k) ==
  LET bad == [success |-> FALSE, latency |-> 0, timestamp |-> clock, error |-> msg,
              call |-> call, task |-> k, iter |-> t.iter, step |-> StepIndex(t.pc),
              endedAt |-> clock]
  IN [t EXCEPT !.results = Append(@, bad), !.pc = "fulfilled", !.raised = msg]

\* --------------------------------------------------- setClientsAmount
\* Faulty variant: one VirtualClient is created and pushed `amount` times.
setClientsAmount_sameInstance(next, amount) ==
  [clients |-> [k \in 1..amount |-> next], next |-> next + 1]

setClientsAmount(next, amount) ==
  [clients |-> [k \in 1..amount |-> next + k - 1], next |-> next + amount]

\* Faulty variant: the pool is rebuilt at the run's concurrency whatever its size.
EnsureClients_always(pool, next, concurrency) == setClientsAmount(next, concurrency)

\* `if (this.clients.length < config.concurrency) this.setClientsAmount(...)`
EnsureClients(pool, next, concurrency) ==
  IF Len(pool) < concurrency
  THEN setClientsAmount(next, concurrency)
  ELSE [clients |-> pool, next |-> next]

\* ------------------------------------------------ runClientForDuration
\* Faulty variant: `<=` for `<`.
DeadlineNotReached_inclusive(clock, endTime) == clock <= endTime

\* Faulty variant: the comparison reversed.
DeadlineNotReached_reversed(clock, endTime) == clock > endTime

\* The loop condition, evaluated at loop entry and after each idle wait.
DeadlineNotReached(clock, endTime) == clock < endTime

\* Faulty variant: at the deadline the loop awaits a promise that nothing resolves.
LoopTop_neverSettles(t, endTime, clock) ==
  IF DeadlineNotReached(clock, endTime)
  THEN StartWorkflow(t, clock)
  ELSE [t EXCEPT !.pc = "new"]

LoopTop(t, endTime, clock) ==
  IF DeadlineNotReached(clock, endTime)
  THEN StartWorkflow(t, clock)
  ELSE [t EXCEPT !.pc = "exited"]

\* ------------------------------------------------------ settling a run
\* Faulty variant: the report is returned without being rendered.
generateReport_skipped(rr) == rr

\* this.performanceAnalyzer.generateReport(testResult): the report is written to
\* the logger; neither the report nor the accumulator is changed.
generateReport(rr) == Phase(rr, "report")

\* Faulty variant: Promise.race/any instead of Promise.allSettled.
AllSettled_any(tasks) == \E k \in DOMAIN tasks : tasks[k].pc \in SettledPcs

AllSettled(tasks) == \A k \in DOMAIN tasks : tasks[k].pc \in SettledPcs

RECURSIVE CollectSettled(_, _, _, _)
\* allResults.forEach: fulfilled values are added whole, a rejection becomes one
\* synthetic failure.
CollectSettled(tasks, k, res, clock) ==
  IF k > Len(tasks) THEN res
  ELSE CollectSettled(tasks, k + 1,
         IF tasks[k].pc = "fulfilled"
         THEN addResults(res, tasks[k].results)
         ELSE addResult(res, [success |-> FALSE, latency |-> 0, timestamp |-> clock,
                              error |-> "Unknown error", call |-> 0, task |-> k,
                              iter |-> 0, step |-> 0, endedAt |-> clock]),
         clock)

\* The continuation of runConcurrentTest after `await Promise.allSettled`.
FinalizeConcurrent(rr, res, clock) ==
  With(CollectSettled(rr.tasks, 1, res, clock), LAMBDA acc :
    With(calculateMetricsCall(acc, clock - rr.testStartTime), LAMBDA out :
      [run |-> Phase(generateReport(
                 [Phase(Phase(rr, "settled"), "metrics") EXCEPT
                    !.counted = acc,
                    !.report = <<[testType |-> "concurrent", config |-> rr.config,
                                  metrics |-> out.metrics,
                                  startTime |-> rr.testStartTime,
                                  endTime |-> clock]>>,
                    !.pc = "returned"]), "return"),
       results |-> out.results]))

\* The continuation of runLoadTest after `await Promise.allSettled`.
FinalizeLoad(rr, res, clock) ==
  With(calculateMetricsCall(res, clock - rr.testStartTime), LAMBDA out :
    [run |-> Phase(generateReport(
               [Phase(Phase(rr, "settled"), "metrics") EXCEPT
                  !.counted = res,
                  !.report = <<[testType |-> "load", config |-> rr.config,
                                metrics |-> out.metrics,
                                startTime |-> rr.testStartTime,
                                endTime |-> clock]>>,
                  !.pc = "returned"]), "return"),
     results |-> out.results])

\* Promise.allSettled resolves in the turn in which its last promise settles.
Resume(rr, res, clock) ==
  IF rr.pc = "awaitAll" /\ AllSettled(rr.tasks)
  THEN IF rr.kind = "concurrent"
       THEN FinalizeConcurrent(rr, res, clock)
       ELSE FinalizeLoad(rr, res, clock)
  ELSE [run |-> rr, results |-> res]

\* --------------------------------------------------- executeRampUpTest
\* Faulty variant: the release does not wait for the interval.
RampTimerDue_noDelay(cfg, setAt, clock) == clock >= setAt

\* rampUpInterval = rampUpTime * 1000 / concurrency is a fraction; the timer is
\* due when elapsed >= rampUpInterval, compared without rounding.
RampTimerDue(cfg, setAt, clock) ==
  (clock - setAt) * cfg.concurrency >= cfg.rampUpTime[1] * MsPerSecond

\* clientPromises.push(this.executeClientWorkflow(client)); i++
RampLaunch(rr, clock) ==
  [rr EXCEPT !.tasks = Append(@, StartWorkflow(NewTask(rr.rampClient), clock)),
             !.i = @ + 1]

\* The top of the for loop at index rr.i >= 1: end of loop, undefined client, or
\* the inter-release wait.
RampNext(rr, pool, clock) ==
  IF rr.i >= rr.config.concurrency THEN [rr EXCEPT !.pc = "awaitAll"]
  ELSE IF rr.i + 1 > Len(pool) THEN [rr EXCEPT !.pc = "threw"]
  ELSE [rr EXCEPT !.pc = "rampUp", !.rampClient = pool[rr.i + 1], !.timerAt = clock]

executeRampUpTest(rr, pool, clock) ==
  IF Len(pool) < 1 THEN [rr EXCEPT !.pc = "threw"]
  ELSE RampNext(RampLaunch(Phase([rr EXCEPT !.i = 0, !.rampClient = pool[1]],
                                 "launch"), clock),
                pool, clock)

\* -------------------------------------------------------- burst launch
\* Faulty variant: the whole pool is mapped, without slice(0, concurrency).
LaunchAll_wholePool(pool, concurrency, clock) ==
  [k \in DOMAIN pool |-> StartWorkflow(NewTask(pool[k]), clock)]

\* this.clients.slice(0, concurrency).map((client) => this.executeClientWorkflow(client))
LaunchAll(pool, concurrency, clock) ==
  LET first == SubSeq(pool, 1, IF concurrency < Len(pool) THEN concurrency ELSE Len(pool))
  IN [k \in DOMAIN first |-> StartWorkflow(NewTask(first[k]), clock)]

\* ------------------------------------------------------------ actions
Init ==
  /\ clients = <<>>
  /\ nextClient = 1
  /\ results = <<>>
  /\ now = 0
  /\ calls = 0
  /\ setCalls = 0
  /\ runs = [s \in Slots |-> IdleRun]
  /\ computed = <<>>
  /\ exported = <<>>
  /\ direct = IdleDirect
  /\ logger = NewLogger("info", TRUE, FALSE)

InFlight(rr) == rr.pc \in {"rampUp", "awaitAll"}
Returned(rr) == rr.pc = "returned"
NoRunInFlight == \A s \in Slots : ~InFlight(runs[s])

\* The number of remote calls the tasks of a run have issued.
RECURSIVE Attempts(_, _)
Attempts(tasks, k) ==
  IF k > Len(tasks) THEN 0 ELSE Len(tasks[k].attempted) + Attempts(tasks, k + 1)

\* TestRunner.setClientsAmount called by the user of the runner.
CallSetClientsAmount(amount) ==
  /\ NoRunInFlight
  /\ setCalls < MaxSetCalls
  /\ LET p == setClientsAmount(nextClient, amount)
     IN clients' = p.clients /\ nextClient' = p.next
  /\ setCalls' = setCalls + 1
  /\ UNCHANGED <<results, now, calls, runs, computed, exported, direct, logger>>

\* TestRunner.runConcurrentTest up to its first suspension.
runConcurrentTest(s, cfg) ==
  LET p == EnsureClients(clients, nextClient, cfg.concurrency)
      rr == [IdleRun EXCEPT !.kind = "concurrent", !.call = calls + 1,
                            !.config = cfg, !.testStartTime = now,
                            !.phases = <<"ensure", "reset">>]
      launched ==
        IF Truthy(cfg.rampUpTime) /\ cfg.rampUpTime[1] > 0
        THEN executeRampUpTest(rr, p.clients, now)
        ELSE [Phase(rr, "launch") EXCEPT
                !.pc = "awaitAll",
                !.tasks = LaunchAll(p.clients, cfg.concurrency, now)]
  IN /\ clients' = p.clients
     /\ nextClient' = p.next
     /\ \E out \in {Resume(launched, reset, now)} :
          /\ results' = out.results
          /\ runs' = [runs EXCEPT ![s] = out.run]
     /\ calls' = calls + 1
     /\ UNCHANGED <<now, setCalls, computed, exported, direct, logger>>

\* runLoadTest after its duration check: pool growth, reset, the launch of the
\* `concurrency` loops, up to the await of Promise.allSettled.
LaunchLoad(s, cfg) ==
  LET rr == [IdleRun EXCEPT !.kind = "load", !.call = calls + 1, !.config = cfg,
                            !.phases = <<"ensure", "reset", "launch">>]
      p == EnsureClients(clients, nextClient, cfg.concurrency)
      endTime == now + cfg.duration[1] * MsPerSecond
      launched ==
        [rr EXCEPT !.pc = "awaitAll", !.testStartTime = now, !.endTime = endTime,
                   !.tasks = [k \in 1..cfg.concurrency |->
                                LoopTop(NewTask(p.clients[k]), endTime, now)]]
  IN /\ clients' = p.clients
     /\ nextClient' = p.next
     /\ \E out \in {Resume(launched, reset, now)} :
          /\ results' = out.results
          /\ runs' = [runs EXCEPT ![s] = out.run]
     /\ calls' = calls + 1
     /\ UNCHANGED <<now, setCalls, computed, exported, direct, logger>>

\* Faulty variant: the duration is checked after the pool was grown and the accumulator
\* reset.
runLoadTest_lateCheck(s, cfg) ==
  IF ~Truthy(cfg.duration)
  THEN LET p == EnsureClients(clients, nextClient, cfg.concurrency)
       IN /\ runs' = [runs EXCEPT ![s] =
                        [IdleRun EXCEPT !.kind = "load", !.call = calls + 1,
                                        !.config = cfg, !.pc = "threw"]]
          /\ clients' = p.clients
          /\ nextClient' = p.next
          /\ results' = reset
          /\ calls' = calls + 1
          /\ UNCHANGED <<now, setCalls, computed, exported, direct, logger>>
  ELSE LaunchLoad(s, cfg)

\* TestRunner.runLoadTest up to its first suspension.
runLoadTest(s, cfg) ==
  IF ~Truthy(cfg.duration)
  THEN /\ runs' = [runs EXCEPT ![s] =
                     [IdleRun EXCEPT !.kind = "load", !.call = calls + 1,
                                     !.config = cfg, !.pc = "threw"]]
       /\ calls' = calls + 1
       /\ UNCHANGED <<clients, nextClient, results, now, setCalls, computed, exported, direct, logger>>
  ELSE LaunchLoad(s, cfg)

CallRunConcurrentTest(s, cfg) ==
  /\ calls < MaxCalls
  /\ NoRunInFlight
  /\ runConcurrentTest(s, cfg)

CallRunLoadTest(s, cfg) ==
  /\ calls < MaxCalls
  /\ NoRunInFlight
  /\ runLoadTest(s, cfg)

\* The ramp-up timer fires: the waiting release is made and the loop goes on.
RampTimerFires(s) ==
  /\ runs[s].pc = "rampUp"
  /\ RampTimerDue(runs[s].config, runs[s].timerAt, now)
  /\ LET rr == RampNext(RampLaunch(runs[s], now), clients, now)
     IN runs' = [runs EXCEPT ![s] = rr]
  /\ UNCHANGED <<clients, nextClient, results, now, calls, setCalls, computed, exported, direct, logger>>

\* What follows the settling of task k's current remote call, the task being t
\* after the step: a burst task keeps its value for allSettled; a load loop adds
\* its workflow's results and starts the idle wait.
AfterStep(s, k, t) ==
  LET rr == runs[s]
      done == t.pc \in SettledPcs
      isLoad == rr.kind = "load"
      t2 == IF isLoad /\ done
            THEN [t EXCEPT !.pc = "sleep", !.timerAt = now,
                           !.late = @ + (IF now >= rr.endTime THEN 1 ELSE 0)]
            ELSE t
      res == IF isLoad /\ t.pc = "fulfilled" THEN addResults(results, t.results)
             ELSE results
      rr2 == [rr EXCEPT !.tasks[k] = t2,
                        !.produced = IF t.pc = "fulfilled" THEN @ \o t.results ELSE @]
  IN /\ \E out \in {Resume(rr2, res, now)} :
          /\ runs' = [runs EXCEPT ![s] = out.run]
          /\ results' = out.results
     /\ UNCHANGED <<clients, nextClient, now, calls, setCalls, computed, exported, direct, logger>>

\* The remote call a task awaits resolves.
RemoteCallResolves(s, k) ==
  /\ k \in DOMAIN runs[s].tasks
  /\ runs[s].tasks[k].pc \in StepPcs
  /\ AfterStep(s, k, StepSucceeded(runs[s].tasks[k], now, runs[s].call, k))

\* The remote call a task awaits rejects.
RemoteCallRejects(s, k, msg) ==
  /\ k \in DOMAIN runs[s].tasks
  /\ runs[s].tasks[k].pc \in StepPcs
  /\ AfterStep(s, k, StepFailed(runs[s].tasks[k], now, msg, runs[s].call, k))

IdleTimerDue(t, clock) == clock >= t.timerAt + IdleMs

\* The 10 ms timer of a load loop fires: the loop condition is evaluated again.
IdleTimerFires(s, k) ==
  /\ k \in DOMAIN runs[s].tasks
  /\ runs[s].tasks[k].pc = "sleep"
  /\ IdleTimerDue(runs[s].tasks[k], now)
  /\ LET t == LoopTop(runs[s].tasks[k], runs[s].endTime, now)
     IN \E out \in {Resume([runs[s] EXCEPT !.tasks[k] = t], results, now)} :
          /\ runs' = [runs EXCEPT ![s] = out.run]
          /\ results' = out.results
  /\ UNCHANGED <<clients, nextClient, now, calls, setCalls, computed, exported, direct, logger>>

\* A timer that is set and not yet due.
TimerWaiting ==
  \E s \in Slots :
    \/ runs[s].pc = "rampUp" /\ ~RampTimerDue(runs[s].config, runs[s].timerAt, now)
    \/ \E k \in DOMAIN runs[s].tasks :
         runs[s].tasks[k].pc = "sleep" /\ ~IdleTimerDue(runs[s].tasks[k], now)

\* The wall clock advances.
Tick ==
  /\ now < MaxTime \/ TimerWaiting
  /\ now' = now + TickMs
  /\ UNCHANGED <<clients, nextClient, results, calls, setCalls, runs, computed, exported, direct, logger>>

Next ==
  \/ \E amount \in 0..MaxClients : CallSetClientsAmount(amount)
  \/ \E cfg \in ConcurrentConfigs : CallRunConcurrentTest("main", cfg)
  \/ \E cfg \in LoadConfigs : CallRunLoadTest("main", cfg)
  \/ \E s \in Slots : RampTimerFires(s)
  \/ \E s \in Slots, k \in 1..MaxClients : RemoteCallResolves(s, k)
  \/ \E s \in Slots, k \in 1..MaxClients, msg \in ErrorMessages : RemoteCallRejects(s, k, msg)
  \/ \E s \in Slots, k \in 1..MaxClients : IdleTimerFires(s, k)
  \/ Tick

Spec == Init /\ [][Next]_vars

\* One duration-bounded run on a fresh runner, long enough for its loops to repeat.
CallSustainedLoadTest(cfg) ==
  /\ calls = 0
  /\ NoRunInFlight
  /\ runLoadTest("main", cfg)

NextSustained ==
  \/ \E cfg \in SustainedConfigs : CallSustainedLoadTest(cfg)
  \/ \E s \in Slots, k \in 1..MaxClients : RemoteCallResolves(s, k)
  \/ \E s \in Slots, k \in 1..MaxClients, msg \in SustainedErrors : RemoteCallRejects(s, k, msg)
  \/ \E s \in Slots, k \in 1..MaxClients : IdleTimerFires(s, k)
  \/ Tick

SpecSustained == Init /\ [][NextSustained]_vars

\* Every remote call eventually completes or fails, a timer that is due
\* eventually fires, and the wall clock advances.
Fairness ==
  /\ WF_vars(Tick)
  /\ \A s \in Slots, k \in 1..MaxClients :
       /\ WF_vars(RemoteCallResolves(s, k)
                  \/ \E msg \in SustainedErrors : RemoteCallRejects(s, k, msg))
       /\ WF_vars(IdleTimerFires(s, k))

FairSustained == SpecSustained /\ Fairness

\* One run call of either kind on a fresh runner, with the scheduling the event
\* loop guarantees.
CallSingleRun ==
  /\ calls = 0
  /\ NoRunInFlight
  /\ \/ \E cfg \in ConcurrentConfigs : runConcurrentTest("main", cfg)
     \/ \E cfg \in LoadConfigs : runLoadTest("main", cfg)

NextSingle ==
  \/ CallSingleRun
  \/ \E s \in Slots : RampTimerFires(s)
  \/ \E s \in Slots, k \in 1..MaxClients : RemoteCallResolves(s, k)
  \/ \E s \in Slots, k \in 1..MaxClients, msg \in ErrorMessages : RemoteCallRejects(s, k, msg)
  \/ \E s \in Slots, k \in 1..MaxClients : IdleTimerFires(s, k)
  \/ Tick

\* Every remote call eventually completes or fails, a timer that is due
\* eventually fires, and the wall clock advances.
FairnessSingle ==
  /\ WF_vars(Tick)
  /\ \A s \in Slots :
       /\ WF_vars(RampTimerFires(s))
       /\ \A k \in 1..MaxClients :
            /\ WF_vars(RemoteCallResolves(s, k)
                       \/ \E msg \in ErrorMessages : RemoteCallRejects(s, k, msg))
            /\ WF_vars(IdleTimerFires(s, k))

FairSingle == Init /\ [][NextSingle]_vars /\ FairnessSingle

\* A burst run on a fresh runner and a second burst run that the caller starts
\* while the first is in flight (the first call is not awaited), all within one
\* millisecond of the clock.
OverlapConfigs ==
  [concurrency : Concurrencies, duration : {Undefined}, rampUpTime : {Undefined}]

CallFirstRun(cfg) ==
  /\ calls = 0
  /\ runConcurrentTest("main", cfg)

CallOverlappingRun(cfg) ==
  /\ calls = 1
  /\ InFlight(runs["main"])
  /\ runs["other"].pc = "idle"
  /\ runConcurrentTest("other", cfg)

NextOverlap ==
  \/ \E cfg \in OverlapConfigs : CallFirstRun(cfg)
  \/ \E cfg \in OverlapConfigs : CallOverlappingRun(cfg)
  \/ \E s \in Slots, k \in 1..MaxClients : RemoteCallResolves(s, k)
  \/ \E s \in Slots, k \in 1..MaxClients, msg \in SustainedErrors : RemoteCallRejects(s, k, msg)

SpecOverlap == Init /\ [][NextOverlap]_vars

\* ------------------------------------------------------ exportResults
\* Date.prototype.toISOString of the date whose time value is ms.
toISOString(ms) == [iso |-> ms]

\* Number.prototype.toFixed(2): a fraction is rounded to hundredths, half up;
\* Infinity and NaN print as such; the digits of an irrational root are not
\* expanded.
toFixed2(x) ==
  IF x.den = 0 THEN [fixed |-> IF x.num = 0 THEN "NaN" ELSE "Infinity"]
  ELSE IF x.rn = 1 /\ x.rd = 1
       THEN [fixed |-> (x.num * 200 + x.den) \div (2 * x.den)]
       ELSE [fixed |-> x]

\* A number as JSON.stringify prints it: null for Infinity and NaN.
JsonNumber(x) == IF x.den = 0 THEN [null |-> TRUE] ELSE [number |-> x]

\* JSON.stringify(testResult, null, 2)
exportToJson(testResult) ==
  LET m == testResult.metrics
  IN [testType |-> testResult.testType,
      config |-> testResult.config,
      metrics |->
        [totalOperations |-> m.totalOperations,
         successfulOperations |-> m.successfulOperations,
         failedOperations |-> m.failedOperations,
         totalDuration |-> m.totalDuration,
         throughput |-> JsonNumber(m.throughput),
         latencies |-> m.latencies,
         percentiles |-> [k \in DOMAIN m.percentiles |-> JsonNumber(m.percentiles[k])],
         statistics |-> [k \in DOMAIN m.statistics |-> JsonNumber(m.statistics[k])],
         errorRate |-> JsonNumber(m.errorRate),
         timestamps |-> m.timestamps],
      startTime |-> toISOString(testResult.startTime),
      endTime |-> toISOString(testResult.endTime)]

\* The raw data rows: one per outcome of the accumulator the analyzer holds when
\* the export is made.
CsvRows(res) ==
  [k \in DOMAIN res |->
     <<res[k].timestamp, res[k].latency, res[k].success, res[k].error>>]

\* exportToCsv: the metadata block, written from the report, and the raw data
\* block, written from this.results.
exportToCsv(testResult, res) ==
  LET m == testResult.metrics
      config == testResult.config
  IN [metadata |->
        <<<<"Test Type", testResult.testType>>,
          <<"Concurrency", config.concurrency>>>>
        \o (IF Truthy(config.duration) THEN <<<<"Duration", config.duration[1]>>>>
            ELSE <<>>)
        \o (IF Truthy(config.rampUpTime)
            THEN <<<<"Ramp Up Time", config.rampUpTime[1]>>>> ELSE <<>>)
        \o <<<<"Start Time", toISOString(testResult.startTime)>>,
             <<"End Time", toISOString(testResult.endTime)>>,
             <<"Total Operations", m.totalOperations>>,
             <<"Successful Operations", m.successfulOperations>>,
             <<"Failed Operations", m.failedOperations>>,
             <<"Throughput (ops/sec)", toFixed2(m.throughput)>>,
             <<"Error Rate (%)", toFixed2(m.errorRate)>>,
             <<"P50 Latency (ms)", toFixed2(m.percentiles.p50)>>,
             <<"P90 Latency (ms)", toFixed2(m.percentiles.p90)>>,
             <<"P95 Latency (ms)", toFixed2(m.percentiles.p95)>>,
             <<"P99 Latency (ms)", toFixed2(m.percentiles.p99)>>,
             <<"Mean Latency (ms)", toFixed2(m.statistics.mean)>>,
             <<"Min Latency (ms)", toFixed2(m.statistics.min)>>,
             <<"Max Latency (ms)", toFixed2(m.statistics.max)>>,
             <<"Std Dev Latency (ms)", toFixed2(m.statistics.standardDeviation)>>>>,
      header |-> <<"timestamp", "latency", "success", "error">>,
      rows |-> CsvRows(res)]

Formats == {"json", "csv"}

exportResults(testResult, format, res) ==
  IF format = "csv" THEN exportToCsv(testResult, res) ELSE exportToJson(testResult)

\* The caller exports the report a run call returned.  call is the run call the
\* report came from.
ExportReport(call, testResult, format) ==
  /\ Len(exported) < MaxExports
  /\ exported' = Append(exported,
                   [call |-> call, report |-> testResult, format |-> format,
                    text |-> exportResults(testResult, format, results)])
  /\ UNCHANGED <<clients, nextClient, results, now, calls, setCalls, runs, computed, direct, logger>>

\* TestRunner.exportResults called with the report of the latest run.
CallExportResults(s, format) ==
  /\ Returned(runs[s])
  /\ ExportReport(runs[s].call, runs[s].report[1], format)

\* TestRunner.exportResults called with a report the caller has exported before.
CallExportResultsAgain(j, format) ==
  /\ j \in DOMAIN exported
  /\ ExportReport(exported[j].call, exported[j].report, format)

\* The burst configurations of the runs whose reports are exported.
ExportConfigs ==
  [concurrency : Concurrencies, duration : {Undefined}, rampUpTime : {Undefined}]

NextExport ==
  \/ \E cfg \in ExportConfigs : CallRunConcurrentTest("main", cfg)
  \/ \E s \in Slots, k \in 1..MaxClients : RemoteCallResolves(s, k)
  \/ \E s \in Slots, k \in 1..MaxClients, msg \in SustainedErrors : RemoteCallRejects(s, k, msg)
  \/ Tick
  \/ \E s \in Slots, format \in Formats : CallExportResults(s, format)
  \/ \E j \in 1..MaxExports, format \in Formats : CallExportResultsAgain(j, format)

SpecExport == Init /\ [][NextExport]_vars

\* ------------------------------------ a PerformanceAnalyzer used directly
\* The OperationResult values recorded: successes of 0, 10 and 30 ms and a failure.
SampleOutcome(success, latency, error) ==
  [success |-> success, latency |-> latency, timestamp |-> 0, error |-> error,
   call |-> 0, task |-> 0, iter |-> 0, step |-> 0, endedAt |-> 0]
SampleOutcomes ==
  {SampleOutcome(TRUE, l, "") : l \in {0, 10, 30}}
    \cup {SampleOutcome(FALSE, 0, "ECONNREFUSED")}
\* The arrays given to addResults.
SampleBatches == {<<>>} \cup {<<a, b>> : a, b \in SampleOutcomes}
\* The testDuration arguments, in ms.
SampleDurations == {0, 1000, 3000}

AnalyzerAddResult(r) ==
  /\ Len(results) < MaxResults
  /\ results' = addResult(results, r)
  /\ computed' = <<>>
  /\ UNCHANGED <<clients, nextClient, now, calls, setCalls, runs, exported, direct, logger>>

AnalyzerAddResults(rs) ==
  /\ Len(results) + Len(rs) <= MaxResults
  /\ results' = addResults(results, rs)
  /\ computed' = <<>>
  /\ UNCHANGED <<clients, nextClient, now, calls, setCalls, runs, exported, direct, logger>>

AnalyzerReset ==
  /\ results' = reset
  /\ computed' = <<>>
  /\ UNCHANGED <<clients, nextClient, now, calls, setCalls, runs, exported, direct, logger>>

AnalyzerCalculateMetrics(testDuration) ==
  /\ Len(computed) < MaxComputes
  /\ \E out \in {calculateMetricsCall(results, testDuration)} :
        /\ results' = out.results
        /\ computed' = Append(computed, [testDuration |-> testDuration,
                                         metrics |-> out.metrics])
  /\ UNCHANGED <<clients, nextClient, now, calls, setCalls, runs, exported, direct, logger>>

NextAnalyzer ==
  \/ \E r \in SampleOutcomes : AnalyzerAddResult(r)
  \/ \E rs \in SampleBatches : AnalyzerAddResults(rs)
  \/ AnalyzerReset
  \/ \E d \in SampleDurations : AnalyzerCalculateMetrics(d)

SpecAnalyzer == Init /\ [][NextAnalyzer]_vars

\* ------------------------- a PerformanceAnalyzer holding a larger sample
\* The accumulators of up to MaxSample outcomes made of three blocks of equal
\* outcomes: a copies of u, then b of v, then c of w.
Blocks(u, a, v, b, w, c) ==
  [k \in 1..(a + b + c) |-> IF k <= a THEN u ELSE IF k <= a + b THEN v ELSE w]

InitSample ==
  /\ clients = <<>> /\ nextClient = 1 /\ now = 0 /\ calls = 0 /\ setCalls = 0
  /\ runs = [s \in Slots |-> IdleRun]
  /\ computed = <<>> /\ exported = <<>> /\ direct = IdleDirect
  /\ logger = NewLogger("info", TRUE, FALSE)
  /\ \E u, v, w \in SampleOutcomes : \E a, b, c \in 0..MaxSample :
        /\ a + b + c <= MaxSample
        /\ results = Blocks(u, a, v, b, w, c)

\* The caller computes the metrics of a run of one second.
NextSample == AnalyzerCalculateMetrics(MsPerSecond)

SpecSample == InitSample /\ [][NextSample]_vars

\* ------------------------- runInitializationTest and runSequentialTest
NoClientsError == "No clients available. Call setClientsAmount() first."
UndefinedHandleError == "Cannot read properties of undefined (reading 'initialize')"

NewDirect(kind, call, pool) ==
  [IdleDirect EXCEPT !.kind = kind, !.call = call, !.pool = pool]

\* The activation calls `step` on the handle at place i of its pool and awaits it.
Issue(d, i, step) ==
  [d EXCEPT !.pc = step, !.i = i,
            !.log = Append(@, [ev |-> "issue", client |-> d.pool[i], step |-> step])]

\* Faulty variant: no check of this.clients[0]; calling initialize on undefined
\* raises a TypeError.
runInitializationTest_noGuard(pool, call) ==
  IF Len(pool) = 0
  THEN [NewDirect("initialization", call, <<>>) EXCEPT
          !.pc = "rejected", !.error = UndefinedHandleError]
  ELSE Issue(NewDirect("initialization", call, <<pool[1]>>), 1, "initialize")

\* runInitializationTest up to its first await: virtualClient = this.clients[0] is
\* the only handle it uses.  It is an async function: its throw rejects the promise
\* it returns.
runInitializationTest(pool, call) ==
  IF Len(pool) = 0
  THEN [NewDirect("initialization", call, <<>>) EXCEPT
          !.pc = "rejected", !.error = NoClientsError]
  ELSE Issue(NewDirect("initialization", call, <<pool[1]>>), 1, "initialize")

\* runSequentialTest up to its first await.  The for-of loop iterates the array
\* this.clients names when the loop starts; setClientsAmount replaces this.clients
\* by a new array and leaves that one as it is.
runSequentialTest(pool, call) ==
  IF Len(pool) = 0
  THEN [NewDirect("sequential", call, pool) EXCEPT !.pc = "returned"]
  ELSE Issue(NewDirect("sequential", call, pool), 1, "initialize")

Settle(d, ev) ==
  [d EXCEPT !.log = Append(@, [ev |-> ev, client |-> d.pool[d.i], step |-> d.pc])]

\* The awaited call resolves: the next step, the next handle, or the return.
DirectStepResolved(d) ==
  With(Settle(d, "resolve"), LAMBDA e :
    IF d.pc # "listTools" THEN Issue(e, d.i, StepNames[StepIndex(d.pc) + 1])
    ELSE IF d.i < Len(d.pool) THEN Issue(e, d.i + 1, "initialize")
    ELSE [e EXCEPT !.pc = "returned"])

\* Faulty variant: the error of a handle is caught and the loop goes on with the
\* next handle.
DirectStepRejected_nextHandle(d, msg) ==
  With(Settle(d, "reject"), LAMBDA e :
    IF d.i < Len(d.pool) THEN Issue(e, d.i + 1, "initialize")
    ELSE [e EXCEPT !.pc = "returned"])

\* The awaited call rejects: nothing catches the error, the promise of the test
\* rejects with it.
DirectStepRejected(d, msg) ==
  [Settle(d, "reject") EXCEPT !.pc = "rejected", !.error = msg]

DirectInFlight == direct.pc \in StepPcs

CallRunInitializationTest ==
  /\ calls < MaxCalls /\ NoRunInFlight /\ ~DirectInFlight
  /\ calls' = calls + 1
  /\ direct' = runInitializationTest(clients, calls')
  /\ UNCHANGED <<clients, nextClient, results, now, setCalls, runs, computed, exported, logger>>

CallRunSequentialTest ==
  /\ calls < MaxCalls /\ NoRunInFlight /\ ~DirectInFlight
  /\ calls' = calls + 1
  /\ direct' = runSequentialTest(clients, calls')
  /\ UNCHANGED <<clients, nextClient, results, now, setCalls, runs, computed, exported, logger>>

DirectCallResolves ==
  /\ DirectInFlight
  /\ direct' = DirectStepResolved(direct)
  /\ UNCHANGED <<clients, nextClient, results, now, calls, setCalls, runs, computed,
                 exported, logger>>

DirectCallRejects(msg) ==
  /\ DirectInFlight
  /\ direct' = DirectStepRejected(direct, msg)
  /\ UNCHANGED <<clients, nextClient, results, now, calls, setCalls, runs, computed,
                 exported, logger>>

NextDirect ==
  \/ \E amount \in 0..MaxClients : CallSetClientsAmount(amount)
  \/ CallRunInitializationTest
  \/ CallRunSequentialTest
  \/ DirectCallResolves
  \/ \E msg \in ErrorMessages : DirectCallRejects(msg)

SpecDirect == Init /\ [][NextDirect]_vars

\* --------------------------------- a ConfigurableLogger used directly
\* The messages logged.
LogMessages == {"Total clients: 2", "Starting Load Test"}

\* A logger constructed with any level, with or without colours, with or without
\* a custom logger.
InitLogger ==
  /\ clients = <<>> /\ nextClient = 1 /\ results = <<>> /\ now = 0
  /\ calls = 0 /\ setCalls = 0
  /\ runs = [s \in Slots |-> IdleRun]
  /\ computed = <<>> /\ exported = <<>> /\ direct = IdleDirect
  /\ \E logLevel \in LogLevels, enableColors \in BOOLEAN, customLogger \in BOOLEAN :
        logger = NewLogger(logLevel, enableColors, customLogger)

LoggerCall(after) ==
  /\ Len(logger.calls) < MaxLogCalls
  /\ logger' = after
  /\ UNCHANGED <<clients, nextClient, results, now, calls, setCalls, runs, computed,
                 exported, direct>>

CallLoggerError(message) == LoggerCall(LoggerError(logger, message))
CallLoggerWarn(message) == LoggerCall(LoggerWarn(logger, message))
CallLoggerInfo(message) == LoggerCall(LoggerInfo(logger, message))
CallLoggerDebug(message) == LoggerCall(LoggerDebug(logger, message))

NextLogger ==
  \/ \E message \in LogMessages : CallLoggerError(message)
  \/ \E message \in LogMessages : CallLoggerWarn(message)
  \/ \E message \in LogMessages : CallLoggerInfo(message)
  \/ \E message \in LogMessages : CallLoggerDebug(message)

SpecLogger == InitLogger /\ [][NextLogger]_vars

\* ============================================================ properties
Count(seq, x) == Cardinality({j \in DOMAIN seq : seq[j] = x})
Range(seq) == {seq[j] : j \in DOMAIN seq}
\* The two sequences hold the same elements, each the same number of times.
SameBag(a, b) ==
  /\ Len(a) = Len(b)
  /\ \A x \in Range(a) \cup Range(b) : Count(a, x) = Count(b, x)

Metrics(rr) == rr.report[1].metrics
\* A promise whose workflow has returned (its results are final).
WorkflowDone(t) == t.iter >= 1 /\ t.pc \in {"fulfilled", "sleep", "exited"}

\* C1: when a burst or duration-bounded run computes its metrics, the accumulator
\* holds exactly the outcomes its workflow executions produced, each exactly once,
\* and totalOperations is their number.
C1_OutcomesExactlyOnce ==
  \A s \in Slots :
    Returned(runs[s]) =>
      /\ SameBag(runs[s].counted, runs[s].produced)
      /\ Metrics(runs[s]).totalOperations = Len(runs[s].produced)

\* A duration-bounded run has returned in which the second loop's outcomes were
\* accumulated before outcomes of the first, and a step had failed.
C1_Witness ==
  \E s \in Slots :
    /\ Returned(runs[s]) /\ runs[s].kind = "load"
    /\ Len(runs[s].counted) >= 4
    /\ runs[s].counted[1].task = 2
    /\ \E j \in DOMAIN runs[s].counted :
         runs[s].counted[j].task = 1 /\ ~runs[s].counted[j].success

\* C2: metrics are computed only after every launched workflow execution or client
\* loop of the run has settled; all `concurrency` of them were launched, and the
\* accumulator holds no outcome of the run beyond those the metrics counted.
C2_MetricsAfterAllSettled ==
  \A s \in Slots :
    runs[s].report # <<>> =>
      /\ Len(runs[s].tasks) = runs[s].config.concurrency
      /\ \A k \in DOMAIN runs[s].tasks : runs[s].tasks[k].pc \in SettledPcs
      /\ \A j \in DOMAIN results :
           results[j].call = runs[s].call =>
             Count(results, results[j]) = Count(runs[s].counted, results[j])

\* A two-task run has returned whose tasks settled at different times.
C2_Witness ==
  \E s \in Slots :
    /\ Returned(runs[s]) /\ Len(runs[s].tasks) = 2
    /\ Len(runs[s].tasks[1].results) >= 1 /\ Len(runs[s].tasks[2].results) >= 1
    /\ runs[s].tasks[1].results[Len(runs[s].tasks[1].results)].endedAt
         # runs[s].tasks[2].results[Len(runs[s].tasks[2].results)].endedAt

\* The outcomes of a finished workflow whose first failing step is step n, or which
\* has no failing step and n = 3.
WorkflowShape(t) ==
  LET n == Len(t.results)
      last == t.results[n]
  IN /\ n \in 1..3
     /\ t.attempted = SubSeq(StepNames, 1, n)
     /\ \A j \in 1..n : t.results[j].step = j
     /\ \A j \in 1..(n - 1) :
          /\ t.results[j].success
          /\ t.results[j].latency = t.results[j].endedAt - t.results[j].timestamp
          /\ t.results[j].timestamp =
               (IF j = 1 THEN t.startedAt ELSE t.results[j - 1].endedAt)
     /\ IF last.success
        THEN /\ n = 3
             /\ last.latency = last.endedAt - last.timestamp
             /\ last.timestamp = t.results[2].endedAt
             /\ t.raised = ""
        ELSE /\ last.latency = 0
             /\ last.error = t.raised
             /\ last.error \in ErrorMessages

\* C3: a workflow whose first failing step is step k returns k outcomes: k-1
\* successes in step order with latency = step end - step start, then one failure
\* with latency 0 and the error's message; later steps are not attempted; with no
\* failing step it returns 3 successes.
C3_PartialWorkflow ==
  \A s \in Slots : \A k \in DOMAIN runs[s].tasks :
    WorkflowDone(runs[s].tasks[k]) => WorkflowShape(runs[s].tasks[k])

\* A workflow whose second step failed after a first step that took time.
C3_Witness ==
  \E s \in Slots : \E k \in DOMAIN runs[s].tasks :
    LET t == runs[s].tasks[k]
    IN /\ WorkflowDone(t) /\ Len(t.results) = 2
       /\ t.results[1].success /\ t.results[1].latency > 0
       /\ ~t.results[2].success

\* C4: executeClientWorkflow never rejects, and the list it returns is not empty,
\* whichever remote calls fail.
C4_NeverRejects ==
  \A s \in Slots : \A k \in DOMAIN runs[s].tasks :
    /\ runs[s].tasks[k].pc # "rejected"
    /\ WorkflowDone(runs[s].tasks[k]) => Len(runs[s].tasks[k].results) >= 1

\* Two workflows of one run have returned, one failed at its first step and one at
\* its third.
C4_Witness ==
  \E s \in Slots : \E k, m \in DOMAIN runs[s].tasks :
    /\ WorkflowDone(runs[s].tasks[k]) /\ WorkflowDone(runs[s].tasks[m])
    /\ Len(runs[s].tasks[k].results) = 1 /\ ~runs[s].tasks[k].results[1].success
    /\ Len(runs[s].tasks[m].results) = 3 /\ ~runs[s].tasks[m].results[3].success

\* C5: runLoadTest with no duration throws before anything else happens: the pool
\* is not touched, the accumulator is not reset, no loop is launched and no remote
\* call is issued.
C5_NoDurationLeavesRunnerUnchanged ==
  [][\A s \in Slots :
       (calls' = calls + 1 /\ runs'[s].call = calls' /\ runs'[s].kind = "load"
          /\ runs'[s].config.duration = Undefined)
       => /\ runs'[s].pc = "threw"
          /\ runs'[s].tasks = <<>>
          /\ Attempts(runs'[s].tasks, 1) = 0
          /\ clients' = clients
          /\ nextClient' = nextClient
          /\ results' = results]_vars

\* runLoadTest without a duration has thrown on a runner that holds clients and the
\* outcomes of an earlier run.
C5_Witness ==
  \E s \in Slots :
    /\ runs[s].kind = "load" /\ runs[s].pc = "threw"
    /\ runs[s].config.duration = Undefined
    /\ clients # <<>> /\ Len(clients) < runs[s].config.concurrency
    /\ results # <<>>

\* C6: runLoadTest fails fast, scheduling nothing, for every duration that is not a
\* positive number (missing, zero or negative).
C6_NonPositiveDurationFails ==
  \A s \in Slots :
    (runs[s].kind = "load"
       /\ ~(runs[s].config.duration # Undefined /\ runs[s].config.duration[1] > 0))
    => (runs[s].pc = "threw" /\ runs[s].tasks = <<>>)

\* The loops of duration-bounded runs.
LoadTasks == {<<s, k>> \in Slots \X (1..MaxClients + 1) :
                runs[s].kind = "load" /\ k \in DOMAIN runs[s].tasks}

\* No workflow in flight was started at or after the deadline, and no loop has
\* completed more than one workflow at or after the deadline.
C7_StartsBeforeDeadline ==
  \A x \in LoadTasks :
    LET t == runs[x[1]].tasks[x[2]]
    IN /\ t.pc \in StepPcs => t.startedAt < runs[x[1]].endTime
       /\ t.late <= 1

\* A loop in flight is left alone until its remote call settles, whatever the
\* clock says: then the workflow goes on to its next step, or it returns and all its
\* outcomes are added to the accumulator before the loop starts its idle wait.  The
\* deadline is looked at only by a loop leaving the idle wait.
C7_InFlightCompletes ==
  \A x \in LoadTasks :
    LET t == runs[x[1]].tasks[x[2]]
        u == runs'[x[1]].tasks[x[2]]
    IN (t.pc \in StepPcs /\ u # t) =>
         /\ u.iter = t.iter
         /\ Len(u.results) = Len(t.results) + 1
         /\ SubSeq(u.results, 1, Len(t.results)) = t.results
         /\ \/ u.pc \in StepPcs
            \/ u.pc = "sleep" /\ results' = results \o u.results

\* C7: a client loop checks the deadline only between workflow iterations: no
\* iteration starts at or after the deadline, a workflow in flight when the deadline
\* passes runs to completion and its outcomes are recorded, and a loop completes at
\* most one workflow after the deadline.
C7_CooperativeDeadline ==
  [][C7_StartsBeforeDeadline' /\ C7_InFlightCompletes]_vars

\* A loop has exited after two or more workflows, the last of which was started
\* before the deadline and completed when it had passed, with its outcomes at the end of the accumulator.
C7_Witness ==
  \E x \in LoadTasks :
    LET t == runs[x[1]].tasks[x[2]]
    IN /\ t.pc = "exited" /\ t.iter >= 2 /\ t.late = 1
       /\ Len(t.results) = 3
       /\ t.startedAt < runs[x[1]].endTime
       /\ t.results[3].endedAt >= runs[x[1]].endTime
       /\ Len(results) >= 3
       /\ SubSeq(results, Len(results) - 2, Len(results)) = t.results

\* C8: a duration-bounded run with a positive duration terminates, provided every
\* remote call completes or fails and the clock advances: every loop exits and
\* runLoadTest returns its report.
C8_LoadRunTerminates ==
  \A s \in Slots :
    (runs[s].kind = "load" /\ runs[s].pc = "awaitAll")
      ~> (runs[s].pc = "returned" /\ runs[s].report # <<>>
            /\ \A k \in DOMAIN runs[s].tasks : runs[s].tasks[k].pc = "exited")

\* A run of two loops has returned its report, both loops having exited.
C8_Witness ==
  \E s \in Slots :
    /\ runs[s].kind = "load" /\ Returned(runs[s])
    /\ runs[s].config.duration = Num(2)
    /\ Len(runs[s].tasks) = 2
    /\ \A k \in DOMAIN runs[s].tasks :
         runs[s].tasks[k].pc = "exited" /\ runs[s].tasks[k].iter >= 1

RampRuns == {s \in Slots : runs[s].kind = "concurrent"
                            /\ Truthy(runs[s].config.rampUpTime)
                            /\ runs[s].config.rampUpTime[1] > 0}

\* Releases are made one at a time in pool index order, the first at once and each
\* later one at least rampUpTime*1000/concurrency ms after the one before it, so
\* the k-th (from 0) at least k intervals after the first.
RampReleases(s) ==
  LET rr == runs[s]
      c == rr.config.concurrency
      ramp == rr.config.rampUpTime[1] * MsPerSecond
  IN /\ Len(rr.tasks) <= c
     /\ rr.pc = "rampUp" => (Len(rr.tasks) = rr.i /\ rr.i < c)
     /\ rr.pc \in {"awaitAll", "returned"} => Len(rr.tasks) = c
     /\ \A k \in DOMAIN rr.tasks :
          /\ InFlight(rr) => rr.tasks[k].client = clients[k]
          /\ k = 1 => rr.tasks[k].startedAt = rr.testStartTime
          /\ k > 1 => (rr.tasks[k].startedAt - rr.tasks[k - 1].startedAt) * c >= ramp
          /\ (rr.tasks[k].startedAt - rr.tasks[1].startedAt) * c >= (k - 1) * ramp

\* C10 as amended: ramp-up releases are one at a time in pool index order with the
\* interval before every release but the first; the last handle starts no earlier
\* than (concurrency - 1) intervals after run start.
C10_RampUpReleases ==
  \A s \in RampRuns :
    /\ RampReleases(s)
    /\ runs[s].pc \in {"awaitAll", "returned"} =>
         LET c == runs[s].config.concurrency
         IN (runs[s].tasks[c].startedAt - runs[s].testStartTime) * c
              >= (c - 1) * runs[s].config.rampUpTime[1] * MsPerSecond

\* C10 as stated: in addition the last handle starts at approximately rampUpTime
\* after run start, read here as no more than half an interval before it.
C10_LastStartsAtRampUpTime ==
  \A s \in RampRuns :
    /\ RampReleases(s)
    /\ runs[s].pc \in {"awaitAll", "returned"} =>
         LET c == runs[s].config.concurrency
         IN (runs[s].tasks[c].startedAt - runs[s].testStartTime) * 2 * c
              >= (2 * c - 1) * runs[s].config.rampUpTime[1] * MsPerSecond

\* A ramp-up run of two handles has released both, the second one interval after
\* the first, while the first workflow had already finished.
C10_Witness ==
  \E s \in RampRuns :
    /\ runs[s].pc = "awaitAll" /\ Len(runs[s].tasks) = 2
    /\ runs[s].tasks[2].startedAt > runs[s].tasks[1].startedAt
    /\ runs[s].tasks[1].pc = "fulfilled"
    /\ runs[s].tasks[2].pc \in StepPcs

\* The burst runs that do not ramp up (rampUpTime absent or 0).
NoRampRuns == {s \in Slots : runs[s].kind = "concurrent" /\ s \notin RampRuns}

\* The launch of a burst run without ramp-up: in the turn of the call, `concurrency`
\* workflows are started, the k-th on the k-th handle of the pool, and each has
\* issued its first remote call and nothing else.
C11_Launch ==
  \A s \in Slots :
    (calls' = calls + 1 /\ runs'[s].call = calls' /\ runs'[s].kind = "concurrent"
       /\ ~(Truthy(runs'[s].config.rampUpTime) /\ runs'[s].config.rampUpTime[1] > 0))
    => LET rr == runs'[s]
       IN /\ rr.pc = "awaitAll"
          /\ Len(rr.tasks) = rr.config.concurrency
          /\ Len(clients') >= rr.config.concurrency
          /\ \A k \in DOMAIN rr.tasks :
               /\ rr.tasks[k].client = clients'[k]
               /\ rr.tasks[k].pc = "initialize"
               /\ rr.tasks[k].attempted = <<"initialize">>
               /\ rr.tasks[k].results = <<>>

\* Nothing is launched later: the run keeps its `concurrency` executions, each
\* started once, at the start of the run.
C11_Shape ==
  \A s \in NoRampRuns :
    /\ Len(runs[s].tasks) = runs[s].config.concurrency
    /\ \A k \in DOMAIN runs[s].tasks :
         /\ runs[s].tasks[k].iter = 1
         /\ runs[s].tasks[k].startedAt = runs[s].testStartTime

\* C11: a burst run without ramp-up launches exactly `concurrency` workflow
\* executions, one on each of the first `concurrency` handles of the pool also when
\* the pool is larger, all of them before any of their remote calls has completed.
C11_SimultaneousLaunch == [][C11_Launch /\ C11_Shape']_vars

\* A burst run with rampUpTime 0 and concurrency 1 is in flight on a pool of two
\* handles.
C11_Witness ==
  \E s \in NoRampRuns :
    /\ runs[s].pc = "awaitAll" /\ runs[s].config.rampUpTime = Num(0)
    /\ runs[s].config.concurrency = 1 /\ Len(clients) = 2
    /\ Len(runs[s].tasks) = 1 /\ runs[s].tasks[1].pc = "initialize"
    /\ runs[s].tasks[1].client = clients[1]

\* The workflow executions in flight: a remote call of theirs is pending.
WorkflowsInFlight ==
  {x \in Slots \X (1..MaxClients + 1) :
     x[2] \in DOMAIN runs[x[1]].tasks /\ runs[x[1]].tasks[x[2]].pc \in StepPcs}

\* C12: during a burst or duration-bounded run no two workflow executions in
\* flight use the same client handle.
C12_HandleNotShared ==
  \A x, y \in WorkflowsInFlight :
    x # y => runs[x[1]].tasks[x[2]].client # runs[y[1]].tasks[y[2]].client

\* Two loops of a duration-bounded run are in flight at once, at different steps.
C12_Witness ==
  \E x, y \in WorkflowsInFlight :
    /\ x # y /\ x[1] = y[1] /\ runs[x[1]].kind = "load"
    /\ runs[x[1]].tasks[x[2]].pc = "initialize"
    /\ runs[y[1]].tasks[y[2]].pc = "listTools"

\* C13: for every accumulated outcome set, calculateMetrics returns
\* successfulOperations + failedOperations = totalOperations, the number of
\* accumulated outcomes.
C13_CountsAddUp ==
  \A j \in DOMAIN computed :
    LET m == computed[j].metrics
    IN /\ m.totalOperations = Len(results)
       /\ m.successfulOperations + m.failedOperations = m.totalOperations

\* Metrics were computed over two successes, one of them of 0 ms, and two failures.
C13_Witness ==
  \E j \in DOMAIN computed :
    /\ computed[j].metrics.totalOperations = 4
    /\ computed[j].metrics.failedOperations = 2
    /\ \E k \in DOMAIN results : results[k].success /\ results[k].latency = 0

AllFigures(m) ==
  {m.percentiles.p50, m.percentiles.p90, m.percentiles.p95, m.percentiles.p99,
   m.statistics.min, m.statistics.max, m.statistics.mean, m.statistics.median,
   m.statistics.standardDeviation}

\* C14: when every accumulated outcome is a failure, calculateMetrics returns
\* errorRate 100, successfulOperations 0, throughput 0, and 0 for every percentile
\* and every dispersion figure.
C14_AllFailed ==
  \A j \in DOMAIN computed :
    (\A k \in DOMAIN results : ~results[k].success) =>
      LET m == computed[j].metrics
      IN /\ m.errorRate = Hundred
         /\ m.successfulOperations = 0
         /\ m.throughput = Zero
         /\ AllFigures(m) = {Zero}

\* Metrics were computed over three outcomes, all failures.
C14_Witness ==
  \E j \in DOMAIN computed :
    /\ Len(results) = 3
    /\ \A k \in DOMAIN results : ~results[k].success
    /\ computed[j].metrics.failedOperations = 3
    /\ computed[j].testDuration = 1000

\* C19: a call of calculateMetrics leaves the accumulator as it was, and returns
\* the metrics every earlier call with the same duration returned since the
\* accumulator last changed.
C19_CalculateMetricsPure ==
  [][Len(computed') = Len(computed) + 1
       => /\ results' = results
          /\ \A j \in DOMAIN computed :
               computed[j].testDuration = computed'[Len(computed')].testDuration
                 => computed[j].metrics = computed'[Len(computed')].metrics]_vars

\* calculateMetrics was called twice with the same duration on an accumulator of
\* successes and failures.
C19_Witness ==
  /\ Len(computed) = 2
  /\ computed[1].testDuration = computed[2].testDuration
  /\ computed[1].metrics.successfulOperations >= 2
  /\ computed[1].metrics.failedOperations >= 1

\* The orders in which the outcomes of a sequence can be accumulated.
Orders(seq) ==
  {[k \in DOMAIN seq |-> seq[f[k]]] : f \in Permutations(DOMAIN seq)}

\* The figures of the metrics that C20 is about.
OrderFree(m) ==
  [totalOperations |-> m.totalOperations,
   successfulOperations |-> m.successfulOperations,
   failedOperations |-> m.failedOperations,
   throughput |-> m.throughput, errorRate |-> m.errorRate,
   percentiles |-> m.percentiles, statistics |-> m.statistics]

C15_FailuresReported ==
  \A s \in Slots :
    /\ runs[s].pc = "threw" => (runs[s].kind = "load" /\ ~Truthy(runs[s].config.duration))
    /\ \A k \in DOMAIN runs[s].tasks : runs[s].tasks[k].pc # "rejected"
    /\ Returned(runs[s]) =>
         /\ runs[s].report # <<>>
         /\ Metrics(runs[s]).failedOperations
              = Len(SelectSeq(runs[s].produced, LAMBDA r : ~r.success))
         /\ \A k \in DOMAIN runs[s].tasks :
              runs[s].tasks[k].raised # "" =>
                \E j \in DOMAIN runs[s].counted :
                  /\ runs[s].counted[j].task = k /\ ~runs[s].counted[j].success
                  /\ runs[s].counted[j].error = runs[s].tasks[k].raised

\* C15: whatever remote calls fail, runConcurrentTest and runLoadTest complete and
\* return a report in which the failures are failure outcomes; only a
\* configuration failure makes a run call raise.
C15_RunAlwaysReports ==
  /\ []C15_FailuresReported
  /\ \A s \in Slots : InFlight(runs[s]) ~> Returned(runs[s])

\* A burst run of two executions has returned its report, every remote call having
\* failed.
C15_Witness ==
  \E s \in Slots :
    /\ runs[s].kind = "concurrent" /\ Returned(runs[s])
    /\ Len(runs[s].tasks) = 2
    /\ Metrics(runs[s]).totalOperations = 2
    /\ Metrics(runs[s]).failedOperations = 2
    /\ Metrics(runs[s]).errorRate = Hundred

\* C17: for runs awaited one after another, the accumulator of a run in flight and
\* the outcomes its report counts are outcomes of that run only: the accumulator is
\* cleared before the run schedules a workflow.
C17_RunsDoNotBlend ==
  \A s \in Slots :
    /\ InFlight(runs[s]) =>
         \A j \in DOMAIN results : results[j].call = runs[s].call
    /\ Returned(runs[s]) =>
         /\ \A j \in DOMAIN runs[s].counted : runs[s].counted[j].call = runs[s].call
         /\ Metrics(runs[s]).totalOperations = Len(runs[s].produced)

\* The second run on a runner has returned its report; the first run had grown the
\* pool to two handles and launched on them.
C17_Witness ==
  \E s \in Slots :
    /\ Returned(runs[s]) /\ runs[s].call = 2 /\ setCalls = 0
    /\ runs[s].config.concurrency = 1 /\ Len(clients) = 2
    /\ Len(runs[s].counted) = 3

\* C18: a run never shrinks the pool: a run call that does not raise leaves at
\* least `concurrency` handles and at least as many as it found, the pool is the
\* same when the run returns, and only setClientsAmount makes the pool smaller.
C18_PoolNeverShrinks ==
  [][/\ Len(clients') < Len(clients) => setCalls' = setCalls + 1
     /\ \A s \in Slots :
          /\ (calls' = calls + 1 /\ runs'[s].call = calls' /\ runs'[s].pc # "threw")
               => /\ Len(clients') >= runs'[s].config.concurrency
                  /\ Len(clients') >= Len(clients)
          /\ (InFlight(runs[s]) /\ Returned(runs'[s]))
               => /\ clients' = clients
                  /\ Len(clients') >= runs'[s].config.concurrency]_vars

\* A run of concurrency 1 has returned on the pool of two handles that
\* setClientsAmount had made, and the pool is still that pool.
C18_Witness ==
  \E s \in Slots :
    /\ Returned(runs[s]) /\ runs[s].config.concurrency = 1
    /\ setCalls = 1 /\ clients = <<1, 2>> /\ nextClient = 3

\* C16: the text exportResults returns depends on the report alone: two exports of
\* one report in one format give the same text, whatever happened on the runner in
\* between, and a CSV export has as many raw data rows as the report has operations.
C16_ExportDependsOnReportOnly ==
  /\ \A i, j \in DOMAIN exported :
       (exported[i].call = exported[j].call /\ exported[i].format = exported[j].format)
         => exported[i].text = exported[j].text
  /\ \A j \in DOMAIN exported :
       exported[j].format = "csv"
         => Len(exported[j].text.rows) = exported[j].report.metrics.totalOperations

\* C21: for a latency sample with at least two distinct successful latencies,
\* the percentiles calculateMetrics returns satisfy p50 <= p90 <= p95 <= p99, and
\* all of them lie between statistics.min and statistics.max.
C21_PercentilesOrdered ==
  \A j \in DOMAIN computed :
    LET m == computed[j].metrics
    IN Cardinality(Range(m.latencies)) >= 2 =>
         /\ Leq(m.statistics.min, m.percentiles.p50)
         /\ Leq(m.percentiles.p50, m.percentiles.p90)
         /\ Leq(m.percentiles.p90, m.percentiles.p95)
         /\ Leq(m.percentiles.p95, m.percentiles.p99)
         /\ Leq(m.percentiles.p99, m.statistics.max)

\* Metrics were computed over twenty latencies accumulated out of order, and the
\* four percentiles are four different values above the minimum.
C21_Witness ==
  \E j \in DOMAIN computed :
    LET m == computed[j].metrics
    IN /\ Len(m.latencies) = 20
       /\ m.latencies[1] = 30 /\ m.latencies[20] = 10
       /\ m.statistics.min = Rat(0, 1)
       /\ m.percentiles.p50 = Rat(10, 1)
       /\ m.percentiles.p90 = Rat(20, 1)
       /\ m.percentiles.p95 = Rat(30, 1)

\* The positions of the success outcomes of a sequence, and the sequence without
\* its failure outcomes.
SuccessPositions(seq) == {k \in DOMAIN seq : seq[k].success}
WithoutFailures(seq) == SelectSeq(seq, LAMBDA r : r.success)

\* C22: the latencies field of the metrics holds exactly the latencies of the
\* success outcomes, one entry per success in the order of accumulation, and the
\* percentiles and dispersion statistics are those of the same accumulator without
\* its failure outcomes: the zero latency of a failure outcome is in none of them.
C22_LatenciesFromSuccessesOnly ==
  \A j \in DOMAIN computed :
    LET m == computed[j].metrics
        ok == SuccessPositions(results)
        clean == calculateMetrics(WithoutFailures(results), computed[j].testDuration)
    IN /\ Len(m.latencies) = Cardinality(ok)
       /\ \A k \in ok :
            m.latencies[Cardinality({i \in ok : i <= k})] = results[k].latency
       /\ ok # {} =>
            /\ \A k \in ok : Leq(m.statistics.min, Rat(results[k].latency, 1))
            /\ \E k \in ok : m.statistics.min = Rat(results[k].latency, 1)
       /\ m.percentiles = clean.percentiles
       /\ m.statistics = clean.statistics

\* Metrics were computed over successes of 10 and 30 ms with a failure recorded
\* between them, and the minimum is 10.
C22_Witness ==
  \E j \in DOMAIN computed :
    /\ Len(results) = 3
    /\ results[1].success /\ results[1].latency = 30
    /\ ~results[2].success /\ results[2].latency = 0
    /\ results[3].success /\ results[3].latency = 10
    /\ computed[j].metrics.latencies = <<30, 10>>
    /\ computed[j].metrics.statistics.min = Rat(10, 1)

\* C23: the throughput of the report of a run is successfulOperations * 1000 /
\* totalDuration, totalDuration being the wall-clock time of the whole run in ms
\* (no outcome of the run ends later than that after the run's start),
\* and it is a finite non-negative number for every run, also one measured at 0 ms.
C23_ThroughputFinite ==
  \A s \in Slots :
    Returned(runs[s]) =>
      LET m == Metrics(runs[s])
      IN /\ \A j \in DOMAIN runs[s].counted :
              runs[s].counted[j].endedAt - runs[s].testStartTime <= m.totalDuration
         /\ m.throughput.den # 0
         /\ m.totalDuration > 0 =>
              m.throughput = Rat(m.successfulOperations * MsPerSecond, m.totalDuration)

\* C24 as claimed: the latencies field of the metrics is sorted in ascending order.
C24_LatenciesSorted ==
  \A j \in DOMAIN computed :
    LET l == computed[j].metrics.latencies
    IN \A a, b \in DOMAIN l : a < b => l[a] <= l[b]

\* C24: the latencies field of the metrics holds the latencies of the success
\* outcomes in the order in which they were accumulated: for two successes, the
\* one accumulated first comes first, whichever latency is smaller.
C24_LatenciesInAccumulationOrder ==
  \A j \in DOMAIN computed :
    LET l == computed[j].metrics.latencies
        ok == SuccessPositions(results)
        place(k) == Cardinality({i \in ok : i <= k})
    IN /\ DOMAIN l = {place(k) : k \in ok}
       /\ \A k \in ok : l[place(k)] = results[k].latency

\* Metrics were computed over successes accumulated as 10, 30, 0 ms, and the
\* latencies field is in that order.
C24_Witness ==
  \E j \in DOMAIN computed :
    /\ Len(results) = 3
    /\ \A k \in 1..3 : results[k].success
    /\ computed[j].metrics.latencies = <<10, 30, 0>>

SequentialLog ==
  direct.kind = "sequential" =>
    LET log == direct.log
        n == Len(log)
    IN /\ \A k \in DOMAIN log :
            IF k % 2 = 1
            THEN /\ log[k].ev = "issue"
                 /\ log[k].client = direct.pool[((k \div 2) \div 3) + 1]
                 /\ log[k].step = StepNames[((k \div 2) % 3) + 1]
                 /\ k > 1 => log[k - 1].ev = "resolve"
            ELSE /\ log[k].ev \in {"resolve", "reject"}
                 /\ log[k].client = log[k - 1].client
                 /\ log[k].step = log[k - 1].step
       /\ DirectInFlight <=> n % 2 = 1
       /\ direct.pc = "rejected" <=> (n > 0 /\ log[n].ev = "reject")
       /\ direct.pc = "rejected" => direct.error \in ErrorMessages
       /\ direct.pc = "returned" => n = 6 * Len(direct.pool)

\* C30: runSequentialTest drives the handles of the pool it was called on one
\* after another in pool order: at most one remote call is in flight, the three
\* steps of a handle complete before the first step of the next handle starts, and
\* the first remote call that fails is raised to the caller, no later step or
\* handle being attempted.
C30_SequentialOneAtATime ==
  /\ []SequentialLog
  /\ [][(direct'.call = direct.call + 1 /\ direct'.kind = "sequential")
          => direct'.pool = clients]_vars
  /\ [][(direct.kind = "sequential" /\ direct.pc = "rejected"
            /\ direct'.call = direct.call)
          => direct' = direct]_vars

\* A sequential test over two handles has raised the error of the second step of
\* its second handle, after the three steps of the first.
C30_Witness ==
  /\ direct.kind = "sequential" /\ direct.pc = "rejected"
  /\ direct.pool = <<1, 2>>
  /\ Len(direct.log) = 10
  /\ direct.log[10] = [ev |-> "reject", client |-> 2, step |-> "acknowledgeInitialize"]
  /\ direct.error = "HTTP 500"

\* The phases of a run, in the order of the claim.
PhaseOrder ==
  <<"ensure", "reset", "launch", "settled", "metrics", "report", "return">>

\* C26: a run goes through its phases in one order, each once: ensure the pool,
\* reset the accumulator, launch, wait for all to settle, compute the metrics,
\* render the report, return it.  A run in flight has done the first three with
\* a pool of at least `concurrency` handles, a run that returned has done all
\* seven, the report being rendered once, after the metrics and before the return;
\* a call that raised a configuration error has done none.
C26_PhasesInOrder ==
  \A s \in Slots :
    LET rr == runs[s]
    IN /\ rr.phases = SubSeq(PhaseOrder, 1, Len(rr.phases))
       /\ InFlight(rr) =>
            /\ Len(rr.phases) = 3
            /\ rr.tasks # <<>>
            /\ Len(clients) >= rr.config.concurrency
            /\ rr.report = <<>>
       /\ Returned(rr) =>
            /\ rr.phases = PhaseOrder
            /\ AllSettled(rr.tasks)
            /\ rr.report # <<>>
       /\ rr.pc \in {"idle", "threw"} => rr.phases = <<>>

\* A ramped burst run of two executions, started by the second run call on the
\* runner, has returned.
C26_Witness ==
  \E s \in Slots :
    /\ Returned(runs[s]) /\ runs[s].call = 2
    /\ Truthy(runs[s].config.rampUpTime)
    /\ Len(runs[s].tasks) = 2
    /\ runs[s].phases = PhaseOrder
    /\ Len(clients) = 2

\* Two outcomes of one workflow execution.
SameExecution(a, b) == a.call = b.call /\ a.task = b.task /\ a.iter = b.iter

\* In acc, the outcomes of a workflow execution are in step order and contiguous.
InBlocks(acc) ==
  \A a, b \in DOMAIN acc :
    (a < b /\ SameExecution(acc[a], acc[b])) =>
      /\ acc[a].step < acc[b].step
      /\ \A c \in a..b : SameExecution(acc[a], acc[c])

\* C27: in the accumulator, and in the outcomes a report counts, the outcomes of
\* one workflow execution are in step order and form one contiguous block: no
\* outcome of another execution lies between two of them.
C27_WorkflowBlocks ==
  /\ InBlocks(results)
  /\ \A s \in Slots : InBlocks(runs[s].counted)

\* A load run of two loops is in flight; the accumulator holds the block of the
\* second loop's workflow, of two outcomes, before the block of the first loop's.
C27_Witness ==
  \E s \in Slots :
    /\ runs[s].kind = "load" /\ InFlight(runs[s])
    /\ Len(results) >= 4
    /\ results[1].task = 2 /\ results[2].task = 2 /\ results[1].step = 1
    /\ ~results[2].success
    /\ results[3].task = 1 /\ results[4].task = 1

\* C28: the report of a burst run of concurrency c >= 1, ramped or not, counts
\* for each of its c executions at least one and at most three outcomes, at most
\* one of them a failure: c <= totalOperations <= 3 * c, failedOperations <= c,
\* and failedOperations is the number of executions in which a step failed.
C28_BurstCounts ==
  \A s \in Slots :
    (runs[s].kind = "concurrent" /\ Returned(runs[s])) =>
      LET rr == runs[s]
          m == Metrics(rr)
          c == rr.config.concurrency
          outcomesOf(k) == SelectSeq(rr.counted, LAMBDA r : r.task = k)
      IN /\ Len(rr.tasks) = c
         /\ \A k \in 1..c :
              /\ Len(outcomesOf(k)) \in 1..3
              /\ Len(SelectSeq(outcomesOf(k), LAMBDA r : ~r.success))
                   = (IF rr.tasks[k].raised # "" THEN 1 ELSE 0)
         /\ m.totalOperations >= c /\ m.totalOperations <= 3 * c
         /\ m.failedOperations <= c
         /\ m.failedOperations
              = Cardinality({k \in 1..c : rr.tasks[k].raised # ""})

\* A ramped burst run of two executions has returned: one execution completed its
\* three steps, the first step of the other failed.
C28_Witness ==
  \E s \in Slots :
    /\ runs[s].kind = "concurrent" /\ Returned(runs[s])
    /\ Truthy(runs[s].config.rampUpTime) /\ runs[s].config.concurrency = 2
    /\ Metrics(runs[s]).totalOperations = 4
    /\ Metrics(runs[s]).failedOperations = 1
    /\ Len(runs[s].tasks[2].results) = 1

\* C29: when a second run is started while an earlier run is in flight, the
\* report of each of the two runs counts exactly the outcomes of its own workflow
\* executions, and no two workflow executions in flight use the same handle.
C29_OverlappingRunsIsolated ==
  /\ \A s \in Slots :
       Returned(runs[s]) =>
         /\ \A j \in DOMAIN runs[s].counted : runs[s].counted[j].call = runs[s].call
         /\ SameBag(runs[s].counted, runs[s].produced)
  /\ \A x, y \in WorkflowsInFlight :
       (x # y /\ x[1] # y[1]) =>
         runs[x[1]].tasks[x[2]].client # runs[y[1]].tasks[y[2]].client

\* The rank of a level in none < error < warn < info < debug.
LevelRank(level) ==
  CASE level = "none" -> 0 [] level = "error" -> 1 [] level = "warn" -> 2
    [] level = "info" -> 3 [] level = "debug" -> 4

\* The level of a console entry, read from the tag of its text.
TagLevel(tag) ==
  CASE tag = "[ERROR]" -> "error" [] tag = "[WARN]" -> "warn"
    [] tag = "[INFO]" -> "info" [] tag = "[DEBUG]" -> "debug"

\* C31: without a custom logger, a message is written to the console exactly when
\* the rank of its level is at most the rank of the configured level (none < error
\* < warn < info < debug), so that the level none writes nothing, and the console
\* holds those messages in the order of the calls; with a custom logger every
\* message of every level is forwarded to it, at any configured level, none
\* included, and nothing is written to the console.
C31_LoggerLevels ==
  LET passing == SelectSeq(logger.calls,
                   LAMBDA c : LevelRank(c.level) <= LevelRank(logger.logLevel))
  IN IF logger.customLogger
     THEN /\ logger.console = <<>>
          /\ Len(logger.custom) = Len(logger.calls)
          /\ \A k \in DOMAIN logger.calls :
               /\ logger.custom[k].method = logger.calls[k].level
               /\ logger.custom[k].message = logger.calls[k].message
     ELSE /\ logger.custom = <<>>
          /\ logger.logLevel = "none" => logger.console = <<>>
          /\ Len(logger.console) = Len(passing)
          /\ \A k \in DOMAIN logger.console :
               /\ TagLevel(logger.console[k].text.tag) = passing[k].level
               /\ logger.console[k].text.message = passing[k].message
               /\ LevelRank(passing[k].level) <= LevelRank(logger.logLevel)

\* A logger of level warn without a custom logger was given an error, an info and
\* a warn message: the console holds the error and the warn message.
C31_Witness ==
  /\ ~logger.customLogger /\ logger.logLevel = "warn"
  /\ Len(logger.calls) = 3
  /\ logger.calls[1].level = "error" /\ logger.calls[2].level = "info"
  /\ logger.calls[3].level = "warn"
  /\ Len(logger.console) = 2
  /\ logger.console[1].method = "error" /\ logger.console[2].method = "warn"

====
